---- MODULE Spec2Model ----
(***************************************************************************)
(* Control_de_Portfolio.py: obtener_datos_financieros(tickers) and the     *)
(* module-level script that calls it on a fixed list and prints selected   *)
(* columns.                                                                *)
(*                                                                         *)
(* The market-data provider (yfinance) is external: what it answers for    *)
(* the ticker at each position of the batch is an input, fixed in Init.    *)
(* Numbers are exact rationals; None and the float NaN are separate        *)
(* values (None is falsy, NaN is truthy and propagates through             *)
(* arithmetic, as numpy.float64 does).                                     *)
(***************************************************************************)
EXTENDS Integers, Sequences, FiniteSets, TLC

VARIABLES
    tickers,                    \* the argument of obtener_datos_financieros
    provider,                   \* provider[k]: what yfinance answers for tickers[k]
    pc,                         \* "loop", "returned", "printed", "crashed"
    i,                          \* position of the next ticker of the for loop
    data,                       \* the list of records (line 14)
    df,                         \* the DataFrame built at line 119 (Sin until then)
    stdout,                     \* what print() has written, in order
    capital_contable_promedio,  \* function locals that survive an iteration
    eps_hist,
    per_promedio

vars == <<tickers, provider, pc, i, data, df, stdout,
          capital_contable_promedio, eps_hist, per_promedio>>

----------------------------------------------------------------------------
(* Values                                                                  *)

None == [kind |-> "None"]
NaN == [kind |-> "NaN"]
Inf == [kind |-> "inf"]

Abs(n) == IF n < 0 THEN -n ELSE n

RECURSIVE GCD(_, _)
GCD(a, b) == IF b = 0 THEN a ELSE GCD(b, a % b)

\* the only element of a set of one element; the arithmetic below is written
\* over such sets so that each operand is evaluated once
Unico(S) == CHOOSE v \in S : TRUE

Reducir(n, d, g) ==
    [kind |-> "num",
     num |-> ((IF d < 0 THEN -1 ELSE 1) * n) \div g,
     den |-> ((IF d < 0 THEN -1 ELSE 1) * d) \div g]

\* the rational n/d in lowest terms with a positive denominator (d # 0)
Num(n, d) ==
    Unico({Reducir(x, y, g) : x \in {n}, y \in {d},
                              g \in {Unico({GCD(p, q) : p \in {Abs(n)}, q \in {Abs(d)}})}})

Entero(n) == [kind |-> "num", num |-> n, den |-> 1]

IsNum(v) == v.kind = "num"

\* pandas.isna: None and NaN are the missing values
IsNull(v) == v.kind \in {"None", "NaN"}

IsZero(v) == IsNum(v) /\ v.num = 0

\* Python truthiness of None / int / float: None and 0 are falsy, NaN is truthy
Truthy(v) == \E x \in {v} : x # None /\ ~IsZero(x)

\* a - b on floats (line 32)
Resta(a, b) ==
    Unico({IF IsNum(x) /\ IsNum(y)
           THEN Num(x.num * y.den - y.num * x.den, x.den * y.den)
           ELSE NaN : x \in {a}, y \in {b}})

\* a + b on floats (line 47)
Suma(a, b) ==
    Unico({IF IsNum(x) /\ IsNum(y)
           THEN Num(x.num * y.den + y.num * x.den, x.den * y.den)
           ELSE NaN : x \in {a}, y \in {b}})

\* a / b on floats (lines 47, 63, 71, 78-85); numpy gives inf or nan, not an
\* exception, when a float is divided by zero
Division(a, b) ==
    Unico({IF IsNum(x) /\ IsNum(y)
           THEN IF y.num = 0
                THEN IF x.num = 0 THEN NaN ELSE Inf
                ELSE Num(x.num * y.den, x.den * y.num)
           ELSE NaN : x \in {a}, y \in {b}})

----------------------------------------------------------------------------
(* What the provider answers for one ticker                                *)
(*                                                                         *)
(*   falla          which provider fetch raises ("no" when none does)      *)
(*   balance_sheet  stock.quarterly_balance_sheet: row name -> the row's   *)
(*                  values, most recent quarter first (yfinance's column   *)
(*                  order); every row has one value per quarterly column   *)
(*   dividends      stock.dividends: events [anio, monto]                  *)
(*   history        stock.history(period='1d')['Close'], oldest row first  *)
(*                  (yfinance's row order)                                 *)
(*   info           stock.info: key -> value                               *)
(*   financials     stock.quarterly_financials: row name -> values, most   *)
(*                  recent quarter first                                   *)
(*   history10y     stock.history(period='10y', interval='1mo')['Close']   *)
(*                  .resample('YE').mean(): falla when the fetch or the    *)
(*                  resampling raises, else the yearly means, oldest first *)
(***************************************************************************)

AnioObjetivo == 2023

UltimosAnios == 10

\* 'X' in frame.index
EnIndice(frame, fila) == fila \in DOMAIN frame

\* frame.loc[fila, :].values[0] raises IndexError on a frame with no columns
SinColumnas(frame, fila) == EnIndice(frame, fila) /\ Len(frame[fila]) = 0

\* frame.loc[fila, :].values[0] if fila in frame.index else None
PrimerValor(frame, fila) == IF EnIndice(frame, fila) THEN frame[fila][1] ELSE None

ActivoCorriente(r) == PrimerValor(r.balance_sheet, "Current Assets")

PasivoCorriente(r) == PrimerValor(r.balance_sheet, "Current Liabilities")

DeudaTotal(r) == PrimerValor(r.balance_sheet, "Total Liabilities Net Minority Interest")

ActivosTotales(r) == PrimerValor(r.balance_sheet, "Total Assets")

CapitalContable(r) ==
    IF Truthy(ActivosTotales(r)) /\ Truthy(DeudaTotal(r))
    THEN Resta(ActivosTotales(r), DeudaTotal(r))
    ELSE None

RECURSIVE SumaDelAnio(_, _)
SumaDelAnio(divs, anio) ==
    IF divs = <<>> THEN 0
    ELSE (IF Head(divs).anio = anio THEN Head(divs).monto ELSE 0)
         + SumaDelAnio(Tail(divs), anio)

\* dividendos.groupby(dividendos.index.year).sum()
AgruparPorAnio(divs) ==
    [anio \in {divs[k].anio : k \in DOMAIN divs} |-> SumaDelAnio(divs, anio)]

\* a variant that sums the events of every year
DividendosDeTodosLosAnios(r) == Entero(SumaDelAnio(r.dividends, 2022)
                                       + SumaDelAnio(r.dividends, 2023)
                                       + SumaDelAnio(r.dividends, 2024))

\* .get(2023, 0)
DividendosAnuales(r) ==
    LET porAnio == AgruparPorAnio(r.dividends)
    IN  IF AnioObjetivo \in DOMAIN porAnio THEN Entero(porAnio[AnioObjetivo]) ELSE Entero(0)

\* historial['Close'].iloc[0] if not historial.empty else None
PrecioDeCierre(r) == IF r.history # <<>> THEN r.history[1] ELSE None

\* a variant that averages the two oldest quarters
CapitalContablePromedioAntiguo(r) ==
    LET bs == r.balance_sheet
        fila == "Total Equity Gross Minority Interest"
    IN  IF EnIndice(bs, fila) /\ Len(bs[fila]) >= 2
        THEN Division(Suma(bs[fila][Len(bs[fila])], bs[fila][Len(bs[fila]) - 1]), Entero(2))
        ELSE None

CapitalContablePromedio(r) ==
    LET bs == r.balance_sheet
        fila == "Total Equity Gross Minority Interest"
    IN  IF EnIndice(bs, fila) /\ Len(bs[fila]) >= 2
        THEN Division(Suma(bs[fila][1], bs[fila][2]), Entero(2))
        ELSE None

\* stock.info.get(clave)
InfoGet(r, clave) == IF clave \in DOMAIN r.info THEN r.info[clave] ELSE None

CapitalizacionBursatil(r) == InfoGet(r, "marketCap")

Ventas(r) == InfoGet(r, "totalRevenue")

UtilidadNeta(r) == PrimerValor(r.financials, "Net Income")

SharesOutstanding(r) == InfoGet(r, "sharesOutstanding")

EpsHist(r) ==
    IF Truthy(UtilidadNeta(r)) /\ Truthy(SharesOutstanding(r))
    THEN Division(UtilidadNeta(r), SharesOutstanding(r))
    ELSE None

\* serie[-n:]
Ultimos(serie, n) ==
    IF Len(serie) > n THEN SubSeq(serie, Len(serie) - n + 1, Len(serie)) ELSE serie

RECURSIVE SumaSerie(_)
SumaSerie(serie) ==
    IF serie = <<>> THEN Entero(0) ELSE Suma(Head(serie), SumaSerie(Tail(serie)))

NoNulo(v) == ~IsNull(v)

\* Series.mean(): the mean of the values that are not NaN, NaN when there are none
Media(serie) ==
    LET validos == SelectSeq(serie, NoNulo)
    IN  IF validos = <<>> THEN NaN
        ELSE Division(SumaSerie(validos), Entero(Len(validos)))

\* the try block of lines 66-72 raises: the fetch or the resampling fails, or
\* a yearly mean is divided by None (TypeError). The division is element by
\* element, so a Series without rows divides nothing and raises nothing.
FallaPerPromedio(r, eps) ==
    \/ r.history10y.falla
    \/ eps = None /\ Ultimos(r.history10y.anual, UltimosAnios) # <<>>

\* lines 68-74
PerPromedio(r, eps) ==
    IF FallaPerPromedio(r, eps) THEN None
    ELSE LET precio_hist == Ultimos(r.history10y.anual, UltimosAnios)
             per_anual == [k \in 1..Len(precio_hist) |-> Division(Entero(precio_hist[k]), eps)]
         IN  Media(per_anual)

RazonCirculante(r) ==
    IF Truthy(ActivoCorriente(r)) /\ Truthy(PasivoCorriente(r))
    THEN Division(ActivoCorriente(r), PasivoCorriente(r)) ELSE None

DeudasAActivos(r) ==
    IF Truthy(DeudaTotal(r)) /\ Truthy(ActivosTotales(r))
    THEN Division(DeudaTotal(r), ActivosTotales(r)) ELSE None

\* a variant that divides by total assets
DeudaACapitalSobreActivos(r) ==
    IF Truthy(DeudaTotal(r)) /\ Truthy(CapitalContable(r))
    THEN Division(DeudaTotal(r), ActivosTotales(r)) ELSE None

DeudaACapital(r) ==
    IF Truthy(DeudaTotal(r)) /\ Truthy(CapitalContable(r))
    THEN Division(DeudaTotal(r), CapitalContable(r)) ELSE None

RendimientoDividendos(r) ==
    IF Truthy(DividendosAnuales(r)) /\ Truthy(PrecioDeCierre(r))
    THEN Division(DividendosAnuales(r), PrecioDeCierre(r)) ELSE None

Roe(r, promedio) ==
    IF Truthy(UtilidadNeta(r)) /\ Truthy(promedio)
    THEN Division(UtilidadNeta(r), promedio) ELSE None

PrecioAVentas(r) ==
    IF Truthy(CapitalizacionBursatil(r)) /\ Truthy(Ventas(r))
    THEN Division(CapitalizacionBursatil(r), Ventas(r)) ELSE None

PrecioGanancia(r) ==
    IF Truthy(CapitalizacionBursatil(r)) /\ Truthy(UtilidadNeta(r))
    THEN Division(CapitalizacionBursatil(r), UtilidadNeta(r)) ELSE None

\* a variant that guards against None alone
RoaSinCeros(r) ==
    IF UtilidadNeta(r) # None /\ ActivosTotales(r) # None
    THEN Division(UtilidadNeta(r), ActivosTotales(r)) ELSE None

Roa(r) ==
    IF Truthy(UtilidadNeta(r)) /\ Truthy(ActivosTotales(r))
    THEN Division(UtilidadNeta(r), ActivosTotales(r)) ELSE None

\* stock.info['trailingPE'] (KeyError when the key is missing: see LineaDeFallo)
Per(r) == r.info["trailingPE"]

\* The line of the first statement of the iteration that raises into the
\* except of line 115, 0 when none does.
LineaDeFallo(r) ==
    IF r.falla = "balance_sheet" THEN 23
    ELSE IF SinColumnas(r.balance_sheet, "Current Assets") THEN 26
    ELSE IF SinColumnas(r.balance_sheet, "Current Liabilities") THEN 27
    ELSE IF SinColumnas(r.balance_sheet, "Total Liabilities Net Minority Interest") THEN 28
    ELSE IF SinColumnas(r.balance_sheet, "Total Assets") THEN 29
    ELSE IF r.falla = "dividends" THEN 35
    ELSE IF r.falla = "history" THEN 39
    ELSE IF r.falla = "info" THEN 50
    ELSE IF r.falla = "financials" THEN 54
    ELSE IF SinColumnas(r.financials, "Net Income") THEN 55
    ELSE IF "trailingPE" \notin DOMAIN r.info THEN 86
    ELSE 0

Texto(s) == [kind |-> "str", s |-> s]

\* the dict of lines 90-113; promedio and per_prom are the locals
\* capital_contable_promedio and per_promedio at that point
Registro(ticker, r, promedio, per_prom) ==
    ("Ticker" :> Texto(ticker))
    @@ ("Activo Corriente" :> ActivoCorriente(r))
    @@ ("Pasivo Corriente" :> PasivoCorriente(r))
    @@ ("Deuda Total" :> DeudaTotal(r))
    @@ ("Activos Totales" :> ActivosTotales(r))
    @@ ("Capital Contable" :> CapitalContable(r))
    @@ ("Dividendos Anuales" :> DividendosAnuales(r))
    @@ ("Precio de Cierre" :> PrecioDeCierre(r))
    @@ ("Capital Contable Promedio" :> promedio)
    @@ ("Capitalización Bursátil" :> CapitalizacionBursatil(r))
    @@ ("Ventas" :> Ventas(r))
    @@ ("Utilidad Neta" :> UtilidadNeta(r))
    @@ ("Razón Circulante" :> RazonCirculante(r))
    @@ ("Deudas a Activos" :> DeudasAActivos(r))
    @@ ("Deuda a Capital" :> DeudaACapital(r))
    @@ ("Rendimiento de Dividendos" :> RendimientoDividendos(r))
    @@ ("ROA" :> Roa(r))
    @@ ("ROE" :> Roe(r, promedio))
    @@ ("Precio a Ventas" :> PrecioAVentas(r))
    @@ ("Precio a Ganancias" :> PrecioGanancia(r))
    @@ ("PER" :> Per(r))
    @@ ("PER prom. x10" :> per_prom)

----------------------------------------------------------------------------
(* The inputs: batches of tickers and what the provider answers            *)

MaxTickers == 2
MaxTrimestres == 3
MaxEventos == 2
MaxFilas == 2

\* line 123
TickersEjemplo == <<"GOOGL", "AMD", "GLOB", "MELI">>

Simbolos == {"GOOGL", "AMD"}

Ausente == [kind |-> "ausente"]

\* a row of a quarterly frame with n columns: v for the most recent quarter,
\* v2 for the one before, then older figures
Fila(v, v2, n) == [k \in 1..n |-> IF k = 1 THEN v ELSE IF k = 2 THEN v2 ELSE Entero(6 + k)]

\* the frame that holds the rows whose value is not Ausente
Marco(filas, n) ==
    [f \in {g \in DOMAIN filas : filas[g] # Ausente} |-> Fila(filas[f][1], filas[f][2], n)]

BalanceSheet(ac, pasivo, deuda, activos, equity, n) ==
    Marco(("Current Assets" :> ac)
          @@ ("Current Liabilities" :> pasivo)
          @@ ("Total Liabilities Net Minority Interest" :> deuda)
          @@ ("Total Assets" :> activos)
          @@ ("Total Equity Gross Minority Interest" :> equity), n)

Financials(utilidad, n) == Marco(("Net Income" :> utilidad), n)

Info(cap, ventas, shares, pe) ==
    LET claves == ("marketCap" :> cap) @@ ("totalRevenue" :> ventas)
                  @@ ("sharesOutstanding" :> shares) @@ ("trailingPE" :> pe)
    IN  [c \in {d \in DOMAIN claves : claves[d] # Ausente} |-> claves[c]]

Par(v) == <<v, Entero(9)>>

\* a ticker for which the provider has everything
Completa ==
    [falla |-> "no",
     balance_sheet |-> BalanceSheet(Par(Entero(6)), Par(Entero(3)), Par(Entero(2)),
                                    Par(Entero(5)), <<Entero(4), Entero(2)>>, 3),
     dividends |-> <<[anio |-> 2022, monto |-> 1], [anio |-> 2023, monto |-> 2],
                     [anio |-> 2023, monto |-> 1]>>,
     history |-> <<Entero(4)>>,
     info |-> Info(Entero(12), Entero(4), Entero(3), Entero(15)),
     financials |-> Financials(Par(Entero(6)), 2),
     history10y |-> [falla |-> FALSE, anual |-> <<10, 20>>]]

ValoresBalance == {Ausente, Par(NaN), Par(Entero(0)), Par(Entero(2)), Par(Entero(3))}

ValoresEquity ==
    {Ausente, <<Entero(4), Entero(2)>>, <<NaN, Entero(2)>>, <<Entero(3), Entero(-3)>>,
     <<Entero(5), Entero(2)>>}

ValoresUtilidad == {Ausente, Par(NaN), Par(Entero(0)), Par(Entero(6)), Par(Entero(-6))}

\* current assets and current liabilities vary, the rest is as in Completa
RespuestasLiquidez ==
    {[Completa EXCEPT !.balance_sheet =
          BalanceSheet(ac, pasivo, Par(Entero(2)), Par(Entero(5)),
                       <<Entero(4), Entero(2)>>, n)] :
        ac \in ValoresBalance, pasivo \in ValoresBalance, n \in 0..MaxTrimestres}

\* total liabilities, total assets, the equity row and the net income vary
RespuestasCapital ==
    {[Completa EXCEPT !.balance_sheet =
          BalanceSheet(Par(Entero(6)), Par(Entero(3)), deuda, activos, equity, n),
                      !.financials = Financials(utilidad, 2)] :
        deuda \in ValoresBalance, activos \in ValoresBalance, equity \in ValoresEquity,
        utilidad \in ValoresUtilidad, n \in 0..MaxTrimestres}

\* a frame in which none of the four rows read by lines 26-29 exists: the
\* equity row varies, and so does the number of quarterly columns, down to a
\* frame without columns (an equity row of zero entries)
RespuestasPatrimonio ==
    {[Completa EXCEPT !.balance_sheet =
          BalanceSheet(Ausente, Ausente, Ausente, Ausente, equity, n)] :
        equity \in ValoresEquity, n \in 0..MaxTrimestres}

SecuenciasHasta(S, n) == UNION {[1..m -> S] : m \in 0..n}

Eventos == [anio : {2022, 2023, 2024}, monto : {1, 2}]

\* the dividend series and the one-day price history vary
RespuestasPrecio ==
    {[Completa EXCEPT !.dividends = divs, !.history = hist] :
        divs \in SecuenciasHasta(Eventos, MaxEventos),
        hist \in SecuenciasHasta({Entero(0), Entero(4), Entero(5)}, MaxFilas)}

SeriesAnuales ==
    {<<>>, <<10, 20>>, <<700, 10, 20, 30, 40, 50, 60, 70, 80, 90, 100>>}

\* the info bag, the net income and the ten-year history vary
RespuestasMercado ==
    {[Completa EXCEPT !.info = Info(cap, ventas, shares, pe),
                      !.financials = Financials(utilidad, n),
                      !.history10y = precios] :
        cap \in {Ausente, Entero(0), Entero(12)},
        ventas \in {Ausente, Entero(0), Entero(4)},
        shares \in {Ausente, Entero(0), Entero(3)},
        pe \in {Ausente, Entero(15)},
        utilidad \in ValoresUtilidad,
        n \in {0, 2},
        precios \in {[falla |-> TRUE, anual |-> <<>>]}
                    \cup {[falla |-> FALSE, anual |-> a] : a \in SeriesAnuales}}

Fallas == {"no", "balance_sheet", "dividends", "history", "info", "financials"}

\* one of the provider's fetches raises
RespuestasFalla == {[Completa EXCEPT !.falla = f] : f \in Fallas}

Respuestas ==
    RespuestasLiquidez \cup RespuestasCapital \cup RespuestasPatrimonio
    \cup RespuestasPrecio
    \cup RespuestasMercado \cup RespuestasFalla

\* what the tickers of a longer batch are answered
Catalogo ==
    {Completa,
     [Completa EXCEPT !.falla = "balance_sheet"],
     [Completa EXCEPT !.falla = "info"],
     [Completa EXCEPT !.info = Info(Entero(12), Entero(4), Entero(3), Ausente)],
     [Completa EXCEPT !.info = Info(Entero(8), Ausente, Ausente, Entero(7)),
                      !.history = <<>>],
     [Completa EXCEPT !.balance_sheet = BalanceSheet(Par(Entero(3)), Ausente, Par(Entero(0)),
                                                     Par(NaN), Par(Entero(4)), 1),
                      !.financials = Financials(Ausente, 2),
                      !.dividends = <<>>,
                      !.history10y = [falla |-> TRUE, anual |-> <<>>]],
     [Completa EXCEPT !.balance_sheet = BalanceSheet(Ausente, Ausente, Ausente, Ausente,
                                                     <<Entero(4), Entero(2)>>, 0)]}

Lotes == SecuenciasHasta(Simbolos, MaxTickers) \cup {TickersEjemplo}

----------------------------------------------------------------------------
(* The program                                                             *)

Sin == [kind |-> "unbound"]

\* line 14 reached: nothing fetched, nothing printed, the locals unbound
Arranque ==
    /\ pc = "loop"
    /\ i = 1
    /\ data = <<>>
    /\ df = Sin
    /\ stdout = <<>>
    /\ capital_contable_promedio = Sin
    /\ eps_hist = Sin
    /\ per_promedio = Sin

\* a batch of any length, each ticker answered from the catalogue
InitLotes ==
    /\ tickers \in Lotes
    /\ provider \in [1..Len(tickers) -> Catalogo]
    /\ Arranque

\* one ticker, answered in any of the ways of Respuestas
InitUno ==
    /\ tickers \in {<<s>> : s \in Simbolos}
    /\ provider \in [1..1 -> Respuestas]
    /\ Arranque

Init == InitLotes \/ InitUno

\* print(f"Error al calcular el PER promedio para {ticker}: {e}"), line 75
LineaErrorPer(ticker) == [tipo |-> "error_per", ticker |-> ticker]

\* print(f"Error al procesar {ticker}: {e}"), line 116
LineaErrorTicker(ticker) == [tipo |-> "error_ticker", ticker |-> ticker]

\* a variant that skips a ticker
SiguienteSalta(k) == k + 2

\* the for loop of line 17 takes the next ticker after an iteration
Siguiente(k) == k + 1

\* a variant in which the exception ends the loop
AbortarTrasError(k) == Len(tickers) + 1

\* the except clause of lines 115-116 ends the iteration, not the loop
ContinuarTrasError(k) == Siguiente(k)

\* what the inner try/except of lines 66-75 prints
SalidaPer(ticker, r, eps) ==
    IF FallaPerPromedio(r, eps) THEN <<LineaErrorPer(ticker)>> ELSE <<>>

\* One iteration of the loop in which no statement raises past line 75: the
\* record is appended (lines 20-113).
IterarConRegistro ==
    /\ pc = "loop"
    /\ i <= Len(tickers)
    /\ LineaDeFallo(provider[i]) = 0
    /\ LET ticker == tickers[i]
           r == provider[i]
           promedio == CapitalContablePromedio(r)
           eps == EpsHist(r)
           per_prom == PerPromedio(r, eps)
       IN  /\ capital_contable_promedio' = promedio
           /\ eps_hist' = eps
           /\ per_promedio' = per_prom
           /\ stdout' = stdout \o SalidaPer(ticker, r, eps)
           /\ data' = Append(data, Registro(ticker, r, promedio, per_prom))
    /\ i' = Siguiente(i)
    /\ UNCHANGED <<tickers, provider, pc, df>>

\* One iteration in which a statement raises: the locals assigned before it
\* keep their new values, nothing is appended, the error is printed (lines
\* 115-116) and the loop goes on.
IterarConError ==
    /\ pc = "loop"
    /\ i <= Len(tickers)
    /\ LineaDeFallo(provider[i]) # 0
    /\ LET ticker == tickers[i]
           r == provider[i]
           linea == LineaDeFallo(r)
           eps == IF linea > 63 THEN EpsHist(r) ELSE eps_hist
       IN  /\ capital_contable_promedio' =
                 IF linea > 47 THEN CapitalContablePromedio(r) ELSE capital_contable_promedio
           /\ eps_hist' = eps
           /\ per_promedio' = IF linea > 75 THEN PerPromedio(r, eps) ELSE per_promedio
           /\ stdout' = stdout
                        \o (IF linea > 75 THEN SalidaPer(ticker, r, eps) ELSE <<>>)
                        \o <<LineaErrorTicker(ticker)>>
    /\ i' = ContinuarTrasError(i)
    /\ UNCHANGED <<tickers, provider, pc, data, df>>

\* pandas turns a None into NaN in a column that also holds numbers; a column
\* of None alone stays a column of None
Celda(d, columna, v) ==
    IF v = None /\ \E k \in 1..Len(d) : d[k][columna].kind \in {"num", "NaN", "inf"}
    THEN NaN ELSE v

\* pd.DataFrame(data): the columns are the keys of the records, none when
\* there is no record
DataFrame(d) ==
    [columnas |-> IF d = <<>> THEN {} ELSE DOMAIN d[1],
     filas |-> [k \in 1..Len(d) |-> [c \in DOMAIN d[k] |-> Celda(d, c, d[k][c])]]]

\* lines 119-120, the loop being over
Retornar ==
    /\ pc = "loop"
    /\ i > Len(tickers)
    /\ df' = DataFrame(data)
    /\ pc' = "returned"
    /\ UNCHANGED <<tickers, provider, i, data, stdout,
                   capital_contable_promedio, eps_hist, per_promedio>>

\* line 127
ColumnasMostradas ==
    {"Ticker", "Razón Circulante", "Deudas a Activos", "Deuda a Capital",
     "Rendimiento de Dividendos", "ROA", "ROE", "Precio a Ventas",
     "Precio a Ganancias", "Precio de Cierre", "PER", "PER prom. x10"}

\* tabla[[...]] raises KeyError when a selected column is not a column of tabla
SeleccionFalla(tabla) == ~(ColumnasMostradas \subseteq tabla.columnas)

Seleccion(tabla) ==
    [columnas |-> ColumnasMostradas,
     filas |-> [k \in 1..Len(tabla.filas) |->
                    [c \in ColumnasMostradas |-> tabla.filas[k][c]]]]

\* line 127 of the script, run on the batch of line 123: the selected columns
\* are printed, or the selection raises and nothing catches it
Mostrar ==
    /\ pc = "returned"
    /\ tickers = TickersEjemplo
    /\ IF SeleccionFalla(df)
       THEN /\ pc' = "crashed"
            /\ stdout' = stdout
       ELSE /\ pc' = "printed"
            /\ stdout' = Append(stdout, [tipo |-> "tabla", tabla |-> Seleccion(df)])
    /\ UNCHANGED <<tickers, provider, i, data, df,
                   capital_contable_promedio, eps_hist, per_promedio>>

Next == IterarConRegistro \/ IterarConError \/ Retornar \/ Mostrar

Spec == Init /\ [][Next]_vars

\* a batch of any length; every fetch returns or raises, so every step that
\* can be taken is taken
SpecLotes == InitLotes /\ [][Next]_vars /\ WF_vars(Next)

----------------------------------------------------------------------------
(* What the claims speak of                                                *)

\* a value the provider supplied: neither None nor NaN
Presente(v) == v.kind = "num"

NoCero(v) == Presente(v) /\ v.num # 0

FilasLeidas ==
    {"Current Assets", "Current Liabilities", "Total Liabilities Net Minority Interest",
     "Total Assets"}

\* processing the ticker raises an exception that reaches the per-ticker
\* boundary: a fetch fails, a row that is read has no column, or the info bag
\* has no trailing P/E
Lanza(r) ==
    \/ r.falla # "no"
    \/ \E f \in FilasLeidas \cap DOMAIN r.balance_sheet : r.balance_sheet[f] = <<>>
    \/ \E f \in {"Net Income"} \cap DOMAIN r.financials : r.financials[f] = <<>>
    \/ "trailingPE" \notin DOMAIN r.info

NoLanzaEn(k) == ~Lanza(provider[k])

LanzaEn(k) == Lanza(provider[k])

\* the positions already processed, in input order
Vistos == [k \in 1..(i - 1) |-> k]

\* those whose ticker raised nothing, and those whose ticker raised
Registrados == SelectSeq(Vistos, NoLanzaEn)

Fallidos == SelectSeq(Vistos, LanzaEn)

\* the record of a ticker processed on its own
RegistroSolo(ticker, r) ==
    Registro(ticker, r, CapitalContablePromedio(r), PerPromedio(r, EpsHist(r)))

EsErrorTicker(linea) == linea.tipo = "error_ticker"

EsErrorPer(linea) == linea.tipo = "error_per"

\* the guarded ratios: <<field, numerator field, denominator field>>
RatiosGuardados ==
    {<<"Razón Circulante", "Activo Corriente", "Pasivo Corriente">>,
     <<"Deudas a Activos", "Deuda Total", "Activos Totales">>,
     <<"Deuda a Capital", "Deuda Total", "Capital Contable">>,
     <<"Rendimiento de Dividendos", "Dividendos Anuales", "Precio de Cierre">>,
     <<"ROA", "Utilidad Neta", "Activos Totales">>,
     <<"ROE", "Utilidad Neta", "Capital Contable Promedio">>,
     <<"Precio a Ventas", "Capitalización Bursátil", "Ventas">>,
     <<"Precio a Ganancias", "Capitalización Bursátil", "Utilidad Neta">>}

\* every record belongs to a ticker that raised nothing, and every such
\* ticker already processed has its record
UnoPorRegistrado == Len(data) = Len(Registrados)

----------------------------------------------------------------------------
\* C1: the records are exactly those of the tickers that raise nothing, each
\* the record the ticker gets on its own, in input order; once the function has
\* returned, every ticker has been processed and the table is the one built
\* from those records alone.
C1_FalloAislado ==
    LET solos == [j \in 1..Len(Registrados) |->
                     RegistroSolo(tickers[Registrados[j]], provider[Registrados[j]])]
    IN  /\ data = solos
        /\ pc # "loop" => /\ i = Len(tickers) + 1
                          /\ df = DataFrame(solos)

\* the batch of the script, returned: the second and third tickers raised, the
\* first and the fourth are the two rows of the table
C1_Testigo ==
    /\ pc = "returned"
    /\ tickers = TickersEjemplo
    /\ ~Lanza(provider[1]) /\ Lanza(provider[2]) /\ Lanza(provider[3]) /\ ~Lanza(provider[4])
    /\ provider[2].falla = "balance_sheet"
    /\ "trailingPE" \notin DOMAIN provider[3].info
    /\ Len(df.filas) = 2
    /\ df.filas[2]["Ticker"] = Texto("MELI")

\* C2: in every record each guarded ratio is a field of the record, is None,
\* NaN or a number other than zero, and is a number only if its numerator and
\* its denominator are both numbers other than zero; no ticker is dropped
\* unless it raised.
C2_RatiosGuardados ==
    /\ UnoPorRegistrado
    /\ \A j \in 1..Len(data) : \A q \in RatiosGuardados :
          /\ q[1] \in DOMAIN data[j]
          /\ data[j][q[1]].kind \in {"None", "NaN", "num"}
          /\ ~IsZero(data[j][q[1]])
          /\ ~IsNull(data[j][q[1]]) => NoCero(data[j][q[2]]) /\ NoCero(data[j][q[3]])

\* a record with a ratio left None by a zero numerator, one left None by an
\* absent denominator and one that is a number (6/3)
C2_Testigo ==
    \E j \in 1..Len(data) :
        /\ data[j]["Deuda Total"] = Entero(0)
        /\ NoCero(data[j]["Activos Totales"])
        /\ data[j]["Deudas a Activos"] = None
        /\ data[j]["Capital Contable Promedio"] = None
        /\ NoCero(data[j]["Utilidad Neta"])
        /\ data[j]["ROE"] = None
        /\ data[j]["ROA"] = Num(2, 1)

\* the inputs of the ratios of a record
Entradas ==
    {"Activo Corriente", "Pasivo Corriente", "Deuda Total", "Activos Totales",
     "Dividendos Anuales", "Precio de Cierre", "Utilidad Neta",
     "Capital Contable Promedio", "Capitalización Bursátil", "Ventas"}

Denominadores ==
    {"Pasivo Corriente", "Activos Totales", "Precio de Cierre", "Utilidad Neta",
     "Capital Contable Promedio", "Ventas"}

Numeradores == {"Activo Corriente", "Deuda Total", "Dividendos Anuales", "Capitalización Bursátil"}

\* every ratio of the record is its documented formula
SegunFormulas(reg) ==
    /\ reg["Razón Circulante"] = Division(reg["Activo Corriente"], reg["Pasivo Corriente"])
    /\ reg["Deudas a Activos"] = Division(reg["Deuda Total"], reg["Activos Totales"])
    /\ reg["Deuda a Capital"] =
          Division(reg["Deuda Total"], Resta(reg["Activos Totales"], reg["Deuda Total"]))
    /\ reg["Rendimiento de Dividendos"] =
          Division(reg["Dividendos Anuales"], reg["Precio de Cierre"])
    /\ reg["ROA"] = Division(reg["Utilidad Neta"], reg["Activos Totales"])
    /\ reg["ROE"] = Division(reg["Utilidad Neta"], reg["Capital Contable Promedio"])
    /\ reg["Precio a Ventas"] = Division(reg["Capitalización Bursátil"], reg["Ventas"])
    /\ reg["Precio a Ganancias"] = Division(reg["Capitalización Bursátil"], reg["Utilidad Neta"])

\* all inputs supplied, no denominator zero
EntradasCompletas(reg) ==
    /\ \A e \in Entradas : Presente(reg[e])
    /\ \A e \in Denominadores : NoCero(reg[e])
    /\ reg["Activos Totales"] # reg["Deuda Total"]

\* C3 as stated: with all inputs present and non-zero denominators, every
\* ratio equals its formula.
C3_ComoSeAfirma ==
    \A j \in 1..Len(data) : EntradasCompletas(data[j]) => SegunFormulas(data[j])

\* C3 amended: with all inputs present, non-zero denominators and non-zero
\* numerators, every ratio equals its formula.
C3_Formulas ==
    \A j \in 1..Len(data) :
        (EntradasCompletas(data[j]) /\ \A e \in Numeradores : NoCero(data[j][e]))
            => SegunFormulas(data[j])

\* the record of a ticker with everything: 6/3, 2/5, 2/(5-2), 3/4, 6/5, 6/3,
\* 12/4, 12/6
C3_Testigo ==
    \E j \in 1..Len(data) :
        /\ EntradasCompletas(data[j])
        /\ \A e \in Numeradores : NoCero(data[j][e])
        /\ data[j]["Razón Circulante"] = Num(2, 1)
        /\ data[j]["Deudas a Activos"] = Num(2, 5)
        /\ data[j]["Deuda a Capital"] = Num(2, 3)
        /\ data[j]["Rendimiento de Dividendos"] = Num(3, 4)
        /\ data[j]["ROA"] = Num(6, 5)
        /\ data[j]["ROE"] = Num(2, 1)
        /\ data[j]["Precio a Ventas"] = Num(3, 1)
        /\ data[j]["Precio a Ganancias"] = Num(2, 1)

\* the sum of the amounts of the events of a year, event by event from the last
RECURSIVE TotalDelAnio(_, _, _)
TotalDelAnio(divs, anio, k) ==
    IF k = 0 THEN 0
    ELSE TotalDelAnio(divs, anio, k - 1) + (IF divs[k].anio = anio THEN divs[k].monto ELSE 0)

\* C4: the annual dividends of a record are the sum of the ticker's dividend
\* events of 2023, the number zero when it has none, and the ticker is
\* recorded whatever its dividend series.
C4_Dividendos2023 ==
    /\ UnoPorRegistrado
    /\ \A j \in 1..Len(data) :
          LET divs == provider[Registrados[j]].dividends
          IN  data[j]["Dividendos Anuales"] = Entero(TotalDelAnio(divs, 2023, Len(divs)))

\* one record sums two events of 2023 and leaves out one of 2022, another
\* has zero for a ticker without dividends
C4_Testigo ==
    \E j, k \in 1..Len(data) :
        /\ \E e \in 1..Len(provider[Registrados[j]].dividends) :
              provider[Registrados[j]].dividends[e].anio = 2022
        /\ data[j]["Dividendos Anuales"] = Entero(3)
        /\ provider[Registrados[k]].dividends = <<>>
        /\ data[k]["Dividendos Anuales"] = Entero(0)

\* v is the mean of a and b (NaN when one of them is NaN)
EsMedia(v, a, b) ==
    IF Presente(a) /\ Presente(b) THEN Presente(v) /\ Suma(v, v) = Suma(a, b) ELSE v = NaN

\* the ticker raises before the average equity is computed (before line 43)
LanzaAntesDelPromedio(r) ==
    \/ r.falla \in {"balance_sheet", "dividends", "history"}
    \/ \E f \in FilasLeidas \cap DOMAIN r.balance_sheet : r.balance_sheet[f] = <<>>

\* v is the average equity the claim gives for the balance sheet bs
PromedioAfirmado(v, bs) ==
    LET fila == "Total Equity Gross Minority Interest"
    IN  IF fila \in DOMAIN bs /\ Len(bs[fila]) >= 2
        THEN EsMedia(v, bs[fila][1], bs[fila][2])
        ELSE v = None

\* C5: the average equity of a record is the mean of the two most recent
\* quarterly equity figures when the equity row has at least two entries, and
\* None when it has one entry, zero entries or does not exist; no ticker is
\* dropped for that; and every ticker that reaches the computation, recorded or
\* not, leaves it with that value.
C5_CapitalPromedio ==
    /\ UnoPorRegistrado
    /\ \A j \in 1..Len(data) :
          PromedioAfirmado(data[j]["Capital Contable Promedio"],
                           provider[Registrados[j]].balance_sheet)
    /\ i > 1 /\ ~LanzaAntesDelPromedio(provider[i - 1]) =>
          PromedioAfirmado(capital_contable_promedio, provider[i - 1].balance_sheet)

\* three records of one batch: one averages the two most recent of three
\* entries, one has None for a single entry, and one has None for an equity
\* row of zero entries
C5_Testigo ==
    \E j, k, l \in 1..Len(data) :
        LET fila == "Total Equity Gross Minority Interest"
            bj == provider[Registrados[j]].balance_sheet
            bk == provider[Registrados[k]].balance_sheet
            bl == provider[Registrados[l]].balance_sheet
        IN  /\ fila \in DOMAIN bj /\ fila \in DOMAIN bk /\ fila \in DOMAIN bl
            /\ bj[fila] = <<Entero(4), Entero(2), Entero(9)>>
            /\ data[j]["Capital Contable Promedio"] = Num(3, 1)
            /\ bk[fila] = <<Entero(4)>>
            /\ data[k]["Capital Contable Promedio"] = None
            /\ bl[fila] = <<>>
            /\ data[l]["Capital Contable Promedio"] = None
            /\ data[l]["Ticker"] = Texto(tickers[Registrados[l]])

\* the ten-year step fails: the price fetch or the resampling raises, or there
\* is no EPS because net income or shares outstanding is absent or zero
PasoFalla(r) ==
    \/ r.history10y.falla
    \/ "Net Income" \notin DOMAIN r.financials
    \/ r.financials["Net Income"][1] = Entero(0)
    \/ "sharesOutstanding" \notin DOMAIN r.info
    \/ r.info["sharesOutstanding"] = Entero(0)

\* the ticker raises before the ten-year step is reached
LanzaAntes(r) ==
    \/ r.falla # "no"
    \/ \E f \in FilasLeidas \cap DOMAIN r.balance_sheet : r.balance_sheet[f] = <<>>
    \/ \E f \in {"Net Income"} \cap DOMAIN r.financials : r.financials[f] = <<>>

PasoFallaEn(k) == ~LanzaAntes(provider[k]) /\ PasoFalla(provider[k])

\* C6 as stated: whenever the ten-year step fails, in the claim's sense (see
\* PasoFalla), the record has a null ten-year average P/E and, in every other
\* field, the value of the record the ticker gets when the long-term prices are
\* fetched and resampled without error; each such failure is printed, in
\* order, and drops no ticker.
C6_ComoSeAfirma ==
    /\ UnoPorRegistrado
    /\ SelectSeq(stdout, EsErrorPer) =
          [n \in 1..Len(SelectSeq(Vistos, PasoFallaEn)) |->
              LineaErrorPer(tickers[SelectSeq(Vistos, PasoFallaEn)[n]])]
    /\ \A j \in 1..Len(data) :
          LET k == Registrados[j]
              exito == [provider[k] EXCEPT !.history10y.falla = FALSE]
          IN  PasoFalla(provider[k]) =>
                 /\ IsNull(data[j]["PER prom. x10"])
                 /\ \A c \in DOMAIN data[j] \ {"PER prom. x10"} :
                       data[j][c] = RegistroSolo(tickers[k], exito)[c]

\* C7 as stated: the computed equity is total assets minus total liabilities
\* when both are supplied, and null otherwise.
C7_ComoSeAfirma ==
    \A j \in 1..Len(data) :
        LET activos == data[j]["Activos Totales"]
            deuda == data[j]["Deuda Total"]
        IN  IF Presente(activos) /\ Presente(deuda)
            THEN data[j]["Capital Contable"] = Resta(activos, deuda)
            ELSE IsNull(data[j]["Capital Contable"])

\* C8 as stated: the closing price is the most recent close of the one-day
\* history (its last row), None when the history is empty.
C8_ComoSeAfirma ==
    \A j \in 1..Len(data) :
        LET h == provider[Registrados[j]].history
        IN  data[j]["Precio de Cierre"] = IF h = <<>> THEN None ELSE h[Len(h)]

TickersDe(posiciones) == [n \in 1..Len(posiciones) |-> tickers[posiciones[n]]]

ErroresTicker(salida) == SelectSeq(salida, EsErrorTicker)

\* the ticker column of the records is the tickers that raised nothing, the
\* printed ticker errors are those of the tickers that raised, both in input
\* order, and the returned table has the same ticker column
EnOrden ==
    /\ i \in 1..(Len(tickers) + 1)
    /\ [j \in 1..Len(data) |-> data[j]["Ticker"].s] = TickersDe(Registrados)
    /\ ErroresTicker(stdout) = [n \in 1..Len(Fallidos) |-> LineaErrorTicker(tickers[Fallidos[n]])]
    /\ pc # "loop" =>
          /\ i = Len(tickers) + 1
          /\ [j \in 1..Len(df.filas) |-> df.filas[j]["Ticker"].s] = TickersDe(Registrados)

\* a step that moves the loop takes the ticker at position i and leaves either
\* one record of it or one ticker error of it; no other step adds either
UnoPorPaso ==
    IF i' # i
    THEN /\ i' = i + 1
         /\ i <= Len(tickers)
         /\ \/ /\ Len(data') = Len(data) + 1
               /\ SubSeq(data', 1, Len(data)) = data
               /\ data'[Len(data')]["Ticker"] = Texto(tickers[i])
               /\ ErroresTicker(stdout') = ErroresTicker(stdout)
            \/ /\ data' = data
               /\ ErroresTicker(stdout') = Append(ErroresTicker(stdout), LineaErrorTicker(tickers[i]))
    ELSE data' = data /\ ErroresTicker(stdout') = ErroresTicker(stdout)

\* C9: the tickers are taken one at a time in input order, each leaving one
\* record or one ticker error; the ticker column is the successful tickers in
\* input order; and the pass ends.
C9_UnoPorUnoEnOrden == []EnOrden /\ [][UnoPorPaso]_vars /\ <>(pc # "loop")

\* the batch of the script, returned: a record, an error, a record, an error
C9_Testigo ==
    /\ pc = "returned"
    /\ tickers = TickersEjemplo
    /\ Len(data) = 2
    /\ Len(ErroresTicker(stdout)) = 2
    /\ Registrados = <<1, 3>>

\* C10 as stated: the script never ends in an uncaught failure, whatever
\* tickers fail; it ends with the selected columns printed.
C10_ComoSeAfirma ==
    /\ pc # "crashed"
    /\ pc = "printed" => stdout[Len(stdout)].tipo = "tabla"

====
